---------------------------- MODULE Spec2Model ----------------------------
(***************************************************************************)
(* A model of utils/run_utils.py of peakonly: peak segmentation            *)
(* (border_prediction), consensus correction of borders                    *)
(* (border2average_correction, border_correction), feature assembly        *)
(* (build_features) and feature collapsing (collapse_mzrtgroup,            *)
(* feature_collapsing).                                                    *)
(*                                                                         *)
(* Python lists are sequences (index k of Python is index k+1 here); a     *)
(* border [begin, end] is the pair <<begin, end>>.  Each function of the   *)
(* source has its own group of variables and its own specification; the    *)
(* variables of the other functions stay at their idle values.             *)
(***************************************************************************)
EXTENDS Integers, Sequences, FiniteSets, TLC

----------------------------------------------------------------------------
(* Bounds of the model                                                     *)

\* longest ROI intensity sequence given to border_prediction
MaxRoiLen == 4
\* most positions whose splitter probability exceeds split_threshold
MaxSplitHigh == 1
\* largest peak_minimum_points given to border_prediction
MaxMinPoints == 1

\* largest scan index of a border given to border2average_correction
MaxCoord == 7
\* most borders of one sample, and most consensus borders
MaxBorders == 3

\* most borders of one sample given to border_correction
MaxSampleBorders == 2

\* the samples of the component given to border_correction
SampleIds == {1, 2}
\* the scan ranges (first scan, last scan) of the ROIs of the component
ScanRanges == {<<0, 3>>, <<1, 4>>}
\* the shifts of the samples of the component: at most one sample is shifted
ShiftLists == {<<0, 0>>, <<0, 1>>, <<-1, 0>>}
\* the similarity groups of the component: one group, or a group per sample
Groupings == {<<0, 0>>, <<0, 1>>, <<1, 0>>}

\* most borders of one sample given to build_features
MaxBuildBorders == 2

\* the samples of the component given to build_features
BuildSampleIds == {1, 2, 3}
\* the similarity group labels of that component
BuildLabels == {0, 1}
\* the width in scans of the ROIs of that component
BuildRoiLen == 2
\* the values of roi.mzmean
MzValues == {1, 3}
\* the values of initial_group
InitialGroups == {0, 1}

\* most Features in the list given to feature_collapsing
MaxFeatures == 3

\* the mzrtgroup ids of those Features
GroupIds == {0, 1}
\* the largest cross-correlations of two base peaks, in hundredths
CorrValues == {80, 85, 90}
\* line 472: a match is accepted above 0.8, in hundredths
CorrThreshold == 80
\* None, where an index or a label is expected
None == -1

\* overlap_threshold of border_intersection, 0.6 = OverlapNum / OverlapDen
OverlapNum == 6
OverlapDen == 10

\* the values of `points` (length of the resampled signal; 256 in the source)
PointsSet == {4, 8}
\* intensities of one scan of a ROI
IntensityValues == {1, 3}

----------------------------------------------------------------------------
(* Helpers that stand for Python and numpy primitives                      *)

Min2(a, b) == IF a < b THEN a ELSE b

Max2(a, b) == IF a > b THEN a ELSE b

\* Python's floor division a // b for b > 0
FloorDiv(a, b) == a \div b

\* a slice index of Python, brought into 0 .. len
SliceIndex(k, len) == IF k < 0 THEN Max2(k + len, 0) ELSE Min2(k, len)

\* the 1-based positions of s that the Python slice s[a:b] covers
SliceRange(a, b, len) == (SliceIndex(a, len) + 1) .. SliceIndex(b, len)

RECURSIVE SumOver(_, _)
SumOver(s, idx) ==
    IF idx = {} THEN 0
    ELSE LET k == CHOOSE x \in idx : TRUE
         IN s[k] + SumOver(s, idx \ {k})

\* np.sum(s[a:b])
SumSlice(s, a, b) == SumOver(s, SliceRange(a, b, Len(s)))

\* list.pop(k) for a 0-based k: the list without that element
Pop(s, k) == [j \in 1 .. (Len(s) - 1) |-> IF j <= k THEN s[j] ELSE s[j + 1]]

\* the elements of a set of integers in ascending order (np.where)
RECURSIVE Ascending(_)
Ascending(S) ==
    IF S = {} THEN <<>>
    ELSE LET m == CHOOSE x \in S : \A y \in S : x <= y
         IN <<m>> \o Ascending(S \ {m})

\* the order of Python on two-element lists
LexLess(x, y) == x[1] < y[1] \/ (x[1] = y[1] /\ x[2] < y[2])

\* list.sort() on a list of two-element lists
RECURSIVE SortBorders(_)
SortBorders(s) ==
    IF s = <<>> THEN <<>>
    ELSE LET k == CHOOSE i \in 1 .. Len(s) :
                      \A j \in 1 .. Len(s) : ~LexLess(s[j], s[i])
         IN <<s[k]>> \o SortBorders(Pop(s, k - 1))

Range(s) == {s[k] : k \in 1 .. Len(s)}

----------------------------------------------------------------------------
VARIABLES
    \* border_prediction
    seg_pc,             \* "idle", "scan", "merge", "done"
    points,             \* parameter points
    domain,             \* the boolean domain mask, line 75
    splitter,           \* splitter[k]: the splitter probability at k exceeds split_threshold
    roi_i,              \* roi.i
    peak_minimum_points,
    seg_n,              \* the loop variable n
    begin,
    peak_wide,
    number_of_peaks,
    borders_signal,
    borders_roi,
    \* border2average_correction
    b2a_pc,             \* "idle", "matrix", "resolve", "rows", "columns", "rest", "done", "failed"
    b2a_borders,        \* parameter borders
    averaged_borders,   \* parameter averaged_borders
    mapping_matrix,
    corrected_borders,
    added,
    \* border_correction
    corr_pc,            \* "idle", "shift", "labels", "done", "failed"
    rois,               \* rois[k]: component.rois[k].scan; len(roi.i) is its width
    shifts,             \* component.shifts
    grouping,           \* component.grouping
    sample_borders,     \* the mapping borders: sample -> list of borders
    borders_before,     \* the mapping borders as it was when the call began
    scan_borders,
    labels,             \* the labels of np.unique(component.grouping) still to correct
    \* build_features
    build_pc,           \* "idle", "labels", "done", "failed"
    bf_grouping,        \* component.grouping
    bf_borders,         \* the mapping borders: sample -> list of borders
    bf_mzmean,          \* bf_mzmean[k]: component.rois[k].mzmean
    initial_group,
    bf_labels,          \* the labels of np.unique(component.grouping) still to build
    features,
    \* feature_collapsing
    fc_pc,              \* "idle", "loop", "done"
    fc_features,        \* the argument features
    correlation,        \* the largest cross-correlation of each two base peaks
    fc_pos,             \* the position in fc_features of the loop of line 497
    group_number,
    mzrtgroup,
    new_features,
    last_collapse       \* the last call of collapse_mzrtgroup and its result

segVars == <<seg_pc, points, domain, splitter, roi_i, peak_minimum_points,
             seg_n, begin, peak_wide, number_of_peaks, borders_signal, borders_roi>>

b2aVars == <<b2a_pc, b2a_borders, averaged_borders, mapping_matrix, corrected_borders, added>>

corrVars == <<corr_pc, rois, shifts, grouping, sample_borders, borders_before,
              scan_borders, labels>>

buildVars == <<build_pc, bf_grouping, bf_borders, bf_mzmean, initial_group,
               bf_labels, features>>

fcVars == <<fc_pc, fc_features, correlation, fc_pos, group_number, mzrtgroup,
            new_features, last_collapse>>

vars == <<segVars, b2aVars, corrVars, buildVars, fcVars>>

\* the variables that a function leaves alone: those of the other functions
segOthers == <<b2aVars, corrVars, buildVars, fcVars>>
b2aOthers == <<segVars, corrVars, buildVars, fcVars>>
corrOthers == <<segVars, b2aVars, buildVars, fcVars>>
buildOthers == <<segVars, b2aVars, corrVars, fcVars>>
fcOthers == <<segVars, b2aVars, corrVars, buildVars>>

----------------------------------------------------------------------------
(* border_prediction, lines 62-109                                         *)

SegIdle ==
    /\ seg_pc = "idle"
    /\ points = 0
    /\ domain = <<>>
    /\ splitter = <<>>
    /\ roi_i = <<>>
    /\ peak_minimum_points = 0
    /\ seg_n = 0
    /\ begin = -1
    /\ peak_wide = 0
    /\ number_of_peaks = 0
    /\ borders_signal = <<>>
    /\ borders_roi = <<>>

\* The inputs: the network's output (lines 73-75) and the ROI.  A position whose
\* splitter probability exceeds split_threshold (0.95) has
\* (1 - splitter) * logit < 0.05, hence is outside the domain (threshold 0.5).
SegInputs ==
    /\ seg_pc = "scan"
    /\ points \in PointsSet
    /\ domain \in [1 .. points -> BOOLEAN]
    /\ splitter \in [1 .. points -> BOOLEAN]
    /\ \A k \in 1 .. points : splitter[k] => ~domain[k]
    /\ Cardinality({k \in 1 .. points : splitter[k]}) <= MaxSplitHigh
    /\ \E L \in 1 .. MaxRoiLen : roi_i \in [1 .. L -> IntensityValues]
    /\ peak_minimum_points \in 0 .. MaxMinPoints
    /\ seg_n = 0
    /\ begin = IF domain[1] THEN 0 ELSE -1
    /\ peak_wide = IF domain[1] THEN 1 ELSE 0
    /\ number_of_peaks = 0
    /\ borders_signal = <<>>
    /\ borders_roi = <<>>

\* the border in scans of the ROI for the run that ends at n, lines 92-93
RoiBorder(b, n, L, pts) ==
    << Max2(FloorDiv((b + 1) * L, pts) - 1, 0), (FloorDiv((n + 2) * L, pts) - 1) + 1 >>

\* line 89: peak_wide / points * len(roi.i) > peak_minimum_points
WideEnough(pw, L, pts, pmp) == pw * L > pmp * pts

\* one iteration of the loop of lines 82-95
ScanStep ==
    /\ seg_pc = "scan"
    /\ seg_n < Len(domain) - 1
    /\ LET cur == domain[seg_n + 1]
           nxt == domain[seg_n + 2]
       IN \/ /\ nxt /\ ~cur                       \* peak begins
             /\ begin' = seg_n + 1
             /\ peak_wide' = 1
             /\ UNCHANGED <<number_of_peaks, borders_signal, borders_roi>>
          \/ /\ nxt /\ cur /\ begin # -1          \* peak continues
             /\ peak_wide' = peak_wide + 1
             /\ UNCHANGED <<begin, number_of_peaks, borders_signal, borders_roi>>
          \/ /\ ~nxt /\ begin # -1                \* peak ends
             /\ IF WideEnough(peak_wide, Len(roi_i), points, peak_minimum_points)
                THEN /\ number_of_peaks' = number_of_peaks + 1
                     /\ borders_signal' = Append(borders_signal, <<begin, seg_n + 2>>)
                     /\ borders_roi' = Append(borders_roi,
                                              RoiBorder(begin, seg_n, Len(roi_i), points))
                ELSE UNCHANGED <<number_of_peaks, borders_signal, borders_roi>>
             /\ begin' = -1
             /\ peak_wide' = 0
          \/ /\ begin = -1 /\ ~(nxt /\ ~cur)     \* no branch is taken
             /\ UNCHANGED <<begin, peak_wide, number_of_peaks, borders_signal, borders_roi>>
    /\ seg_n' = seg_n + 1
    /\ UNCHANGED <<seg_pc, points, domain, splitter, roi_i, peak_minimum_points>>
    /\ UNCHANGED segOthers

\* line 98: the scan is over (an open peak is not closed), n = 0
StartMerge ==
    /\ seg_pc = "scan"
    /\ seg_n = Len(domain) - 1
    /\ seg_pc' = "merge"
    /\ seg_n' = 0
    /\ UNCHANGED <<points, domain, splitter, roi_i, peak_minimum_points,
                   begin, peak_wide, number_of_peaks, borders_signal, borders_roi>>
    /\ UNCHANGED segOthers

\* line 100: np.any(splitter[borders_signal[n][1]:borders_signal[n + 1][0]] > split_threshold)
SplitterBetween(sp, bs, k) ==
    \E p \in SliceRange(bs[k + 1][2], bs[k + 2][1], Len(sp)) : sp[p]

\* lines 101-102: the intensities the two peaks are compared by
MergeIntensity(i, br, bs, k) == SumSlice(i, br[k + 1][1], bs[k + 1][2])

\* line 103
Smallest(i, br, bs, k) ==
    IF MergeIntensity(i, br, bs, k) < MergeIntensity(i, br, bs, k + 1) THEN k ELSE k + 1

\* lines 99-106: no splitter between peaks n and n + 1, the smallest is deleted
MergeDelete ==
    /\ seg_pc = "merge"
    /\ seg_n < number_of_peaks - 1
    /\ ~SplitterBetween(splitter, borders_signal, seg_n)
    /\ LET smallest == Smallest(roi_i, borders_roi, borders_signal, seg_n)
       IN /\ borders_signal' = Pop(borders_signal, smallest)
          /\ borders_roi' = Pop(borders_roi, smallest)
    /\ number_of_peaks' = number_of_peaks - 1
    /\ UNCHANGED <<seg_pc, points, domain, splitter, roi_i, peak_minimum_points,
                   seg_n, begin, peak_wide>>
    /\ UNCHANGED segOthers

\* lines 107-108: a splitter separates peaks n and n + 1
MergeAdvance ==
    /\ seg_pc = "merge"
    /\ seg_n < number_of_peaks - 1
    /\ SplitterBetween(splitter, borders_signal, seg_n)
    /\ seg_n' = seg_n + 1
    /\ UNCHANGED <<seg_pc, points, domain, splitter, roi_i, peak_minimum_points,
                   begin, peak_wide, number_of_peaks, borders_signal, borders_roi>>
    /\ UNCHANGED segOthers

\* line 109: return borders_roi
SegReturn ==
    /\ seg_pc = "merge"
    /\ ~(seg_n < number_of_peaks - 1)
    /\ seg_pc' = "done"
    /\ UNCHANGED <<points, domain, splitter, roi_i, peak_minimum_points,
                   seg_n, begin, peak_wide, number_of_peaks, borders_signal, borders_roi>>
    /\ UNCHANGED segOthers

SegNext == ScanStep \/ StartMerge \/ MergeDelete \/ MergeAdvance \/ SegReturn

----------------------------------------------------------------------------
(* border_intersection and border2average_correction, lines 112-192        *)

\* utils.matching.intersected is not part of the source at hand.  It is the
\* normalized overlap test of the specification: the overlap of the two
\* intervals, divided by the length of the shorter one, meets the threshold.
Intersected(b1, e1, b2, e2) ==
    LET overlap == Min2(e1, e2) - Max2(b1, b2)
    IN /\ overlap > 0
       /\ overlap * OverlapDen >= OverlapNum * Min2(e1 - b1, e2 - b2)

\* lines 112-120
border_intersection(border, avg_border) ==
    Intersected(border[1], border[2], avg_border[1], avg_border[2])

\* lines 131-137: the identity when the counts are equal, the matches otherwise
MappingMatrix(borders, averaged) ==
    IF Len(borders) = Len(averaged)
    THEN [i \in 1 .. Len(borders) |->
             [j \in 1 .. Len(averaged) |-> IF i = j THEN 1 ELSE 0]]
    ELSE [i \in 1 .. Len(borders) |->
             [j \in 1 .. Len(averaged) |->
                 IF border_intersection(borders[i], averaged[j]) THEN 1 ELSE 0]]

\* np.where(line == 1)[0] for row i, as 1-based columns
MatchedCols(M, i, na) == {c \in 1 .. na : M[i][c] = 1}

\* np.where(column == 1)[0] for column c, as 1-based rows
MatchedRows(M, c, nb) == {r \in 1 .. nb : M[r][c] = 1}

\* lines 144-147 for j = c - 1
ResolveAt(M, c, nb) ==
    IF ~(c < nb) THEN M
    ELSE LET M1 == IF M[c + 1][c] = 1 THEN [M EXCEPT ![c + 1][c] = 0] ELSE M
         IN IF M1[c + 1][c + 1] = 1 THEN [M1 EXCEPT ![c][c + 1] = 0] ELSE M1

\* the loop of line 143 over the columns cols
RECURSIVE ResolveCols(_, _, _)
ResolveCols(M, cols, nb) ==
    IF cols = <<>> THEN M
    ELSE ResolveCols(ResolveAt(M, Head(cols), nb), Tail(cols), nb)

\* lines 141-147 from row i on; each row is read from the matrix as it is then
RECURSIVE ResolveRows(_, _, _, _)
ResolveRows(M, i, nb, na) ==
    IF i > nb THEN M
    ELSE LET cols == Ascending(MatchedCols(M, i, na))
             M1 == IF Len(cols) > 1
                   THEN ResolveCols(M, SubSeq(cols, 1, Len(cols) - 1), nb)
                   ELSE M
         IN ResolveRows(M1, i + 1, nb, na)

\* lines 153-164: the borders emitted for a row that matches the columns cols
RowBorders(border, averaged, cols) ==
    [k \in 1 .. Len(cols) |->
        LET avg == averaged[cols[k]]
        IN IF k = 1 THEN <<Min2(border[1], avg[1]), avg[2]>>
           ELSE IF k < Len(cols) THEN <<avg[1], avg[2]>>
           ELSE <<Max2(border[2], avg[2]), border[2]>>]

\* lines 151-168 from row i on: the borders appended
RECURSIVE RowPassBorders(_, _, _, _)
RowPassBorders(M, borders, averaged, i) ==
    IF i > Len(borders) THEN <<>>
    ELSE LET cols == Ascending(MatchedCols(M, i, Len(averaged)))
         IN (IF Len(cols) > 1 THEN RowBorders(borders[i], averaged, cols) ELSE <<>>)
            \o RowPassBorders(M, borders, averaged, i + 1)

\* lines 165-168: the rows marked as added by the row pass
RowPassAdded(M, nb, na) ==
    [i \in 1 .. nb |-> IF Cardinality(MatchedCols(M, i, na)) # 1 THEN 1 ELSE 0]

\* lines 172-181: the border spanning the sample borders in rows
UnionBorder(borders, rows) ==
    << CHOOSE b \in {borders[r][1] : r \in rows} : \A r \in rows : b <= borders[r][1],
       CHOOSE e \in {borders[r][2] : r \in rows} : \A r \in rows : e >= borders[r][2] >>

\* lines 170-184 from column c on; st.failed: the assertion of line 179 failed
RECURSIVE ColumnPass(_, _, _, _, _)
ColumnPass(st, M, borders, averaged, c) ==
    IF c > Len(averaged) \/ st.failed THEN st
    ELSE LET rows == MatchedRows(M, c, Len(borders))
             st1 == IF Cardinality(rows) > 1
                    THEN IF \E r \in rows : st.added[r] = 1
                         THEN [st EXCEPT !.failed = TRUE]
                         ELSE [st EXCEPT
                                 !.corrected = Append(@, UnionBorder(borders, rows)),
                                 !.added = [r \in 1 .. Len(borders) |->
                                               IF r \in rows THEN 1 ELSE @[r]]]
                    ELSE IF rows = {}
                    THEN [st EXCEPT !.corrected = Append(@, averaged[c])]
                    ELSE st
         IN ColumnPass(st1, M, borders, averaged, c + 1)

\* lines 187-188: the borders of the rows not added yet
RECURSIVE OneToOne(_, _, _)
OneToOne(borders, add, i) ==
    IF i > Len(borders) THEN <<>>
    ELSE (IF add[i] = 0 THEN <<borders[i]>> ELSE <<>>) \o OneToOne(borders, add, i + 1)

\* the whole function: [failed |-> TRUE] when the assertion of line 179 fails,
\* the sorted corrected borders otherwise
border2average_correction(borders, averaged) ==
    LET nb == Len(borders)
        na == Len(averaged)
        M == ResolveRows(MappingMatrix(borders, averaged), 1, nb, na)
        st == ColumnPass([corrected |-> RowPassBorders(M, borders, averaged, 1),
                          added |-> RowPassAdded(M, nb, na),
                          failed |-> FALSE],
                         M, borders, averaged, 1)
    IN IF st.failed
       THEN [failed |-> TRUE, borders |-> <<>>]
       ELSE [failed |-> FALSE,
             borders |-> SortBorders(st.corrected \o OneToOne(borders, st.added, 1))]

\* the intervals [b, e) with lo <= b, b + minlen <= e <= hi
Intervals(lo, hi, minlen) ==
    {x \in (lo .. hi) \X (lo .. hi) : x[1] + minlen <= x[2]}

\* lists of at most n borders of S, in the order the segmentation emits them
\* (begins and ends do not decrease; two borders may overlap)
RECURSIVE SampleBorderLists(_, _)
SampleBorderLists(S, n) ==
    IF n = 0 THEN {<<>>}
    ELSE LET shorter == SampleBorderLists(S, n - 1)
             longest == {l \in shorter : Len(l) = n - 1}
         IN shorter \cup
            {Append(p[1], p[2]) : p \in
                {q \in longest \X S :
                    q[1] = <<>> \/ ( /\ q[1][Len(q[1])][1] <= q[2][1]
                                     /\ q[1][Len(q[1])][2] <= q[2][2] )}}

\* lists of at most n consensus borders of S: in ascending order, a border
\* begins no earlier than the one before it ends (lines 248-258)
RECURSIVE ConsensusBorderLists(_, _)
ConsensusBorderLists(S, n) ==
    IF n = 0 THEN {<<>>}
    ELSE LET shorter == ConsensusBorderLists(S, n - 1)
             longest == {l \in shorter : Len(l) = n - 1}
         IN shorter \cup
            {Append(p[1], p[2]) : p \in
                {q \in longest \X S :
                    q[1] = <<>> \/ q[1][Len(q[1])][2] <= q[2][1]}}

B2AIdle ==
    /\ b2a_pc = "idle"
    /\ b2a_borders = <<>>
    /\ averaged_borders = <<>>
    /\ mapping_matrix = <<>>
    /\ corrected_borders = <<>>
    /\ added = <<>>

\* the arguments of a call
B2AInputs ==
    /\ b2a_pc = "matrix"
    /\ b2a_borders \in SampleBorderLists(Intervals(0, MaxCoord, 1), MaxBorders)
    /\ averaged_borders \in ConsensusBorderLists(Intervals(0, MaxCoord, 2), MaxBorders)
    /\ mapping_matrix = <<>>
    /\ corrected_borders = <<>>
    /\ added = <<>>

\* lines 131-137
BuildMatrix ==
    /\ b2a_pc = "matrix"
    /\ mapping_matrix' = MappingMatrix(b2a_borders, averaged_borders)
    /\ b2a_pc' = "resolve"
    /\ UNCHANGED <<b2a_borders, averaged_borders, corrected_borders, added>>
    /\ UNCHANGED b2aOthers

\* lines 139-147
ManyToManyResolution ==
    /\ b2a_pc = "resolve"
    /\ mapping_matrix' = ResolveRows(mapping_matrix, 1, Len(b2a_borders), Len(averaged_borders))
    /\ b2a_pc' = "rows"
    /\ UNCHANGED <<b2a_borders, averaged_borders, corrected_borders, added>>
    /\ UNCHANGED b2aOthers

\* lines 149-168
RowPass ==
    /\ b2a_pc = "rows"
    /\ corrected_borders' = RowPassBorders(mapping_matrix, b2a_borders, averaged_borders, 1)
    /\ added' = RowPassAdded(mapping_matrix, Len(b2a_borders), Len(averaged_borders))
    /\ b2a_pc' = "columns"
    /\ UNCHANGED <<b2a_borders, averaged_borders, mapping_matrix>>
    /\ UNCHANGED b2aOthers

\* lines 170-184; the assertion of line 179 ends the call
ColumnPassStep ==
    /\ b2a_pc = "columns"
    /\ LET st == ColumnPass([corrected |-> corrected_borders, added |-> added,
                             failed |-> FALSE],
                            mapping_matrix, b2a_borders, averaged_borders, 1)
       IN \/ /\ st.failed
             /\ b2a_pc' = "failed"
             /\ UNCHANGED <<corrected_borders, added>>
          \/ /\ ~st.failed
             /\ b2a_pc' = "rest"
             /\ corrected_borders' = st.corrected
             /\ added' = st.added
    /\ UNCHANGED <<b2a_borders, averaged_borders, mapping_matrix>>
    /\ UNCHANGED b2aOthers

\* lines 186-192
OneToOneAndSort ==
    /\ b2a_pc = "rest"
    /\ corrected_borders' = SortBorders(corrected_borders \o OneToOne(b2a_borders, added, 1))
    /\ b2a_pc' = "done"
    /\ UNCHANGED <<b2a_borders, averaged_borders, mapping_matrix, added>>
    /\ UNCHANGED b2aOthers

B2ANext == BuildMatrix \/ ManyToManyResolution \/ RowPass \/ ColumnPassStep \/ OneToOneAndSort

----------------------------------------------------------------------------
(* border_correction, lines 195-275                                        *)

\* len(component.rois[k].i): a ROI holds one intensity per scan of its range
RoiLen(scan) == scan[2] - scan[1]

\* line 211
ShiftBorder(border, scan_begin, shift) ==
    <<border[1] + scan_begin + shift, border[2] + scan_begin + shift>>

\* lines 209-212
ShiftedBorders(bl, scan_begin, shift) ==
    [k \in 1 .. Len(bl) |-> ShiftBorder(bl[k], scan_begin, shift)]

\* a variant of lines 273-274 that forgets the shift of the sample
UnshiftBorderNoShift(border, scan_begin, shift, len) ==
    <<Max2(border[1] - scan_begin, 0), Min2(border[2] - scan_begin, len)>>

\* lines 273-274
UnshiftBorder(border, scan_begin, shift, len) ==
    <<Max2(border[1] - scan_begin - shift, 0), Min2(border[2] - scan_begin - shift, len)>>

\* lines 271-275
UnshiftedBorders(bl, scan_begin, shift, len) ==
    [k \in 1 .. Len(bl) |-> UnshiftBorder(bl[k], scan_begin, shift, len)]

\* the test component.grouping[i] == label of lines 221, 234 and 263
InGroup(grp, i, label) == grp[i] = label

Members(grp, label) == {i \in 1 .. Len(grp) : InGroup(grp, i, label)}

\* lines 218-227: the minimum of the first scans, and the minimum of the last
TotalBegin(scans, members) ==
    CHOOSE b \in {scans[i][1] : i \in members} : \A i \in members : b <= scans[i][1]

TotalEnd(scans, members) ==
    CHOOSE e \in {scans[i][2] : i \in members} : \A i \in members : e <= scans[i][2]

\* lines 236-237: how often the borders of the samples in members cover
\* position p (1-based) of averaged_domain, an array of len positions
RECURSIVE Occupancy(_, _, _, _, _)
Occupancy(sb, members, total_begin, len, p) ==
    IF members = {} THEN 0
    ELSE LET i == CHOOSE x \in members : TRUE
         IN Cardinality({k \in 1 .. Len(sb[i]) :
                p \in SliceRange(sb[i][k][1] - total_begin, sb[i][k][2] - total_begin, len)})
            + Occupancy(sb, members \ {i}, total_begin, len, p)

\* lines 230-241: averaged_domain / samples_in_group > 0.5
AveragedDomain(sb, members, total_begin, total_end) ==
    [p \in 1 .. (total_end - total_begin) |->
        2 * Occupancy(sb, members, total_begin, total_end - total_begin, p)
            > Cardinality(members)]

\* lines 248-258 from n on: the runs of the averaged domain
RECURSIVE ConsensusScan(_, _, _, _, _)
ConsensusScan(dom, n, b, acc, total_begin) ==
    IF n >= Len(dom) - 1
    THEN IF b # -1
         THEN Append(acc, <<b + total_begin, Len(dom) + 1 + total_begin>>)
         ELSE acc
    ELSE IF dom[n + 2] /\ ~dom[n + 1]
         THEN ConsensusScan(dom, n + 1, n + 1, acc, total_begin)
    ELSE IF ~dom[n + 2] /\ b # -1
         THEN ConsensusScan(dom, n + 1, -1,
                            Append(acc, <<b + total_begin, n + 2 + total_begin>>),
                            total_begin)
    ELSE ConsensusScan(dom, n + 1, b, acc, total_begin)

\* lines 242-258
AveragedBorders(dom, total_begin) ==
    ConsensusScan(dom, 0, IF dom[1] THEN 0 ELSE -1, <<>>, total_begin)

\* lines 217-258: the consensus borders of a label, from the shifted borders sb
GroupConsensus(sb, scans, grp, label) ==
    LET members == Members(grp, label)
        total_begin == TotalBegin(scans, members)
        total_end == TotalEnd(scans, members)
    IN AveragedBorders(AveragedDomain(sb, members, total_begin, total_end), total_begin)

\* a variant of line 263 that corrects every sample in the pass of every label
ToCorrectAll(grp, i, label) == TRUE

\* line 263: the samples whose borders the pass of a label corrects
ToCorrect(grp, i, label) == InGroup(grp, i, label)

CorrIdle ==
    /\ corr_pc = "idle"
    /\ rois = <<>>
    /\ shifts = <<>>
    /\ grouping = <<>>
    /\ sample_borders = <<>>
    /\ borders_before = <<>>
    /\ scan_borders = <<>>
    /\ labels = <<>>

\* the arguments of a call: a component and the borders of its samples, each
\* border within its ROI
CorrInputs ==
    /\ corr_pc = "shift"
    /\ rois \in [SampleIds -> ScanRanges]
    /\ shifts \in ShiftLists
    /\ grouping \in Groupings
    /\ sample_borders \in [SampleIds ->
            UNION {SampleBorderLists(Intervals(0, RoiLen(sc), 1), MaxSampleBorders) :
                      sc \in ScanRanges}]
    /\ \A k \in SampleIds : \A j \in 1 .. Len(sample_borders[k]) :
            sample_borders[k][j][2] <= RoiLen(rois[k])
    /\ borders_before = sample_borders
    /\ scan_borders = <<>>
    /\ labels = <<>>

\* lines 204-215
ShiftAll ==
    /\ corr_pc = "shift"
    /\ scan_borders' = [k \in 1 .. Len(rois) |->
                           ShiftedBorders(sample_borders[k], rois[k][1], shifts[k])]
    /\ labels' = Ascending({grouping[k] : k \in 1 .. Len(grouping)})
    /\ corr_pc' = "labels"
    /\ UNCHANGED <<rois, shifts, grouping, sample_borders, borders_before>>
    /\ UNCHANGED corrOthers

\* lines 216-275 for one label: the consensus, the correction of the samples of
\* the label, and the write back of the borders of every sample
CorrectLabel ==
    /\ corr_pc = "labels"
    /\ labels # <<>>
    /\ LET label == Head(labels)
           averaged == GroupConsensus(scan_borders, rois, grouping, label)
           res == [i \in 1 .. Len(rois) |->
                      IF ToCorrect(grouping, i, label)
                      THEN border2average_correction(scan_borders[i], averaged)
                      ELSE [failed |-> FALSE, borders |-> scan_borders[i]]]
           failing == {i \in 1 .. Len(rois) : res[i].failed}
       IN \/ /\ failing # {}              \* the assertion of line 179 ends the call
             /\ scan_borders' = [i \in 1 .. Len(rois) |->
                                    IF \A f \in failing : i < f THEN res[i].borders
                                    ELSE scan_borders[i]]
             /\ corr_pc' = "failed"
             /\ UNCHANGED <<sample_borders, labels>>
          \/ /\ failing = {}
             /\ scan_borders' = [i \in 1 .. Len(rois) |-> res[i].borders]
             /\ sample_borders' = [k \in 1 .. Len(rois) |->
                                      UnshiftedBorders(res[k].borders, rois[k][1],
                                                       shifts[k], RoiLen(rois[k]))]
             /\ labels' = Tail(labels)
             /\ UNCHANGED corr_pc
    /\ UNCHANGED <<rois, shifts, grouping, borders_before>>
    /\ UNCHANGED corrOthers

\* the loop of line 216 is over: the function returns
CorrReturn ==
    /\ corr_pc = "labels"
    /\ labels = <<>>
    /\ corr_pc' = "done"
    /\ UNCHANGED <<rois, shifts, grouping, sample_borders, borders_before,
                   scan_borders, labels>>
    /\ UNCHANGED corrOthers

CorrNext == ShiftAll \/ CorrectLabel \/ CorrReturn

----------------------------------------------------------------------------
(* build_features, lines 363-418                                           *)
(* The intensities and the retention times of a Feature are left out; mz   *)
(* is the fraction <<numerator, denominator>>.                             *)

\* lines 380-384: the number of borders of the last sample of the label
PeakNumber(grp, bl, label) ==
    LET members == Members(grp, label)
        last == CHOOSE i \in members : \A j \in members : j <= i
    IN Len(bl[last])

\* line 397 fails for some sample of the label (in the first round of the
\* loop of line 386, when there is one)
PeakCountAssertionFails(grp, bl, label) ==
    /\ PeakNumber(grp, bl, label) > 0
    /\ \E i \in Members(grp, label) : Len(bl[i]) # PeakNumber(grp, bl, label)

\* lines 405-410 from the members still to come: the first sample of the label
\* sets mz; then (mz * i + mzmean) / (i + 1), i the 0-based index of the sample
\* in the component
RECURSIVE RunningMz(_, _, _)
RunningMz(mz, todo, mzmean) ==
    IF todo = <<>> THEN mz
    ELSE LET k == Head(todo)
             i == k - 1
             nxt == IF mz = <<>> THEN <<mzmean[k], 1>>
                    ELSE <<mz[1] * i + mzmean[k] * mz[2], mz[2] * (i + 1)>>
         IN RunningMz(nxt, Tail(todo), mzmean)

\* lines 387-415: the Feature of peak p (1-based) of a label
BuildFeature(grp, bl, mzmean, label, p, group) ==
    LET members == Ascending(Members(grp, label))
    IN [samples |-> members,
        borders |-> [n \in 1 .. Len(members) |-> bl[members[n]][p]],
        mz |-> RunningMz(<<>>, members, mzmean),
        mzrtgroup |-> group,
        similarity_group |-> label]

\* lines 386-415: the Features of a label
LabelFeatures(grp, bl, mzmean, label, group) ==
    [p \in 1 .. PeakNumber(grp, bl, label) |->
        BuildFeature(grp, bl, mzmean, label, p, group)]

BuildIdle ==
    /\ build_pc = "idle"
    /\ bf_grouping = <<>>
    /\ bf_borders = <<>>
    /\ bf_mzmean = <<>>
    /\ initial_group = 0
    /\ bf_labels = <<>>
    /\ features = <<>>

\* the arguments of a call, and lines 372-377
BuildInputs ==
    /\ build_pc = "labels"
    /\ bf_grouping \in [BuildSampleIds -> BuildLabels]
    /\ bf_borders \in [BuildSampleIds ->
            SampleBorderLists(Intervals(0, BuildRoiLen, 1), MaxBuildBorders)]
    /\ bf_mzmean \in [BuildSampleIds -> MzValues]
    /\ initial_group \in InitialGroups
    /\ bf_labels = Ascending({bf_grouping[k] : k \in BuildSampleIds})
    /\ features = <<>>

\* lines 378-415 for one label whose samples agree on the number of peaks, or
\* whose last sample has no border
BuildLabel ==
    /\ build_pc = "labels"
    /\ bf_labels # <<>>
    /\ ~PeakCountAssertionFails(bf_grouping, bf_borders, Head(bf_labels))
    /\ features' = features \o LabelFeatures(bf_grouping, bf_borders, bf_mzmean,
                                             Head(bf_labels), initial_group)
    /\ bf_labels' = Tail(bf_labels)
    /\ UNCHANGED <<build_pc, bf_grouping, bf_borders, bf_mzmean, initial_group>>
    /\ UNCHANGED buildOthers

\* line 397: the assertion fails, the call ends without a result
BuildAssertionError ==
    /\ build_pc = "labels"
    /\ bf_labels # <<>>
    /\ PeakCountAssertionFails(bf_grouping, bf_borders, Head(bf_labels))
    /\ build_pc' = "failed"
    /\ UNCHANGED <<bf_grouping, bf_borders, bf_mzmean, initial_group, bf_labels, features>>
    /\ UNCHANGED buildOthers

\* line 418: return features
BuildReturn ==
    /\ build_pc = "labels"
    /\ bf_labels = <<>>
    /\ build_pc' = "done"
    /\ UNCHANGED <<bf_grouping, bf_borders, bf_mzmean, initial_group, bf_labels, features>>
    /\ UNCHANGED buildOthers

BuildNext == BuildLabel \/ BuildAssertionError \/ BuildReturn

----------------------------------------------------------------------------
(* collapse_mzrtgroup and feature_collapsing, lines 421-506                *)
(* A Feature is its samples, its mzrtgroup and its similarity_group.  The  *)
(* k-th Feature of the argument of feature_collapsing holds the one entry  *)
(* k, which also names its base peak (lines 434-442).                      *)

\* lines 316-330, Feature.extend
Extend(feature, other) ==
    [feature EXCEPT !.samples = @ \o other.samples]

\* lines 429-431
Label2Idx(group, label) ==
    Ascending({idx \in 1 .. Len(group) : group[idx].similarity_group = label})

\* line 432: the labels of the set, in each order a set may be listed in
UniqueLabelOrders(group) ==
    LET found == {group[idx].similarity_group : idx \in 1 .. Len(group)}
    IN {order \in [1 .. Cardinality(found) -> found] :
            \A a \in DOMAIN order : \A b \in DOMAIN order :
                a # b => order[a] # order[b]}

\* lines 464-468: np.max of the cross-correlation of two base peaks
MaxCorrelation(corr, f, g) ==
    corr[<<Min2(f.samples[1], g.samples[1]), Max2(f.samples[1], g.samples[1])>>]

\* the variant of Coefficient that does not look at used_features
CoefficientIgnoringUsed(corr, group, idx, jdx, used) ==
    MaxCorrelation(corr, group[idx], group[jdx])

\* lines 459-468: the coefficient of the candidate jdx for the base idx
Coefficient(corr, group, idx, jdx, used) ==
    IF jdx \in used THEN 0
    ELSE MaxCorrelation(corr, group[idx], group[jdx])

\* lines 455-474: the candidate chosen among those of one later label
ChosenCandidate(corr, group, idx, comp_label, used) ==
    LET jdxs == Label2Idx(group, comp_label)
        coefs == [n \in 1 .. Len(jdxs) |->
                    Coefficient(corr, group, idx, jdxs[n], used)]
        highest == CHOOSE c \in Range(coefs) : \A d \in Range(coefs) : d <= c
        argmax == CHOOSE n \in 1 .. Len(jdxs) :
                    /\ coefs[n] = highest
                    /\ \A m \in 1 .. (n - 1) : coefs[m] # highest
    IN IF highest > CorrThreshold THEN jdxs[argmax] ELSE None

\* lines 452-474
ComposeIdx(corr, group, order, i, idx, used) ==
    [j \in 1 .. Len(order) |->
        IF j < i THEN None
        ELSE IF j = i THEN idx
        ELSE ChosenCandidate(corr, group, idx, order[j], used)]

\* lines 477-481
RECURSIVE ExtendAll(_, _, _)
ExtendAll(feature, group, compose) ==
    IF compose = <<>> THEN feature
    ELSE IF Head(compose) = None THEN ExtendAll(feature, group, Tail(compose))
    ELSE ExtendAll(Extend(feature, group[Head(compose)]), group, Tail(compose))

\* lines 446-447: the pairs (i, idx) in the order of the two loops
RECURSIVE BaseCandidates(_, _, _)
BaseCandidates(group, order, i) ==
    IF i > Len(order) THEN <<>>
    ELSE LET idxs == Label2Idx(group, order[i])
         IN [n \in 1 .. Len(idxs) |-> <<i, idxs[n]>>]
                \o BaseCandidates(group, order, i + 1)

\* lines 446-482 from the pairs still to come
RECURSIVE CollapseFrom(_, _, _, _, _, _, _)
CollapseFrom(corr, group, order, code, todo, used, out) ==
    IF todo = <<>> THEN out
    ELSE LET i == Head(todo)[1]
             idx == Head(todo)[2]
             compose == ComposeIdx(corr, group, order, i, idx, used)
             empty == [samples |-> <<>>, mzrtgroup |-> code,
                       similarity_group |-> None]
         IN IF idx \in used
            THEN CollapseFrom(corr, group, order, code, Tail(todo), used, out)
            ELSE CollapseFrom(corr, group, order, code, Tail(todo),
                              used \union (Range(compose) \ {None}),
                              Append(out, ExtendAll(empty, group, compose)))

\* lines 421-484, unique_labels being order
collapse_mzrtgroup(corr, group, code, order) ==
    CollapseFrom(corr, group, order, code, BaseCandidates(group, order, 1),
                 {}, <<>>)

\* the call collapse_mzrtgroup(group, code) and its result
CollapseCall(corr, group, code, order) ==
    [mzrtgroup |-> group, code |-> code, order |-> order,
     result |-> collapse_mzrtgroup(corr, group, code, order)]

\* the variant of SameGroup that never sees a change of id
AlwaysSameGroup(feature, number) == TRUE

\* line 498
SameGroup(feature, number) == feature.mzrtgroup = number

\* the lists of n labels that differ in more than the names of the labels
LabelLists(n) ==
    {l \in [1 .. n -> 0 .. (n - 1)] :
        \A k \in 1 .. n :
            \/ l[k] = 0
            \/ \E m \in 1 .. (k - 1) : l[m] = l[k] - 1 \/ l[m] >= l[k]}

FcIdle ==
    /\ fc_pc = "idle"
    /\ fc_features = <<>>
    /\ correlation = <<>>
    /\ fc_pos = 0
    /\ group_number = 0
    /\ mzrtgroup = <<>>
    /\ new_features = <<>>
    /\ last_collapse = <<>>

\* the argument of a call, and lines 494-496
FcInputs ==
    /\ fc_pc = "loop"
    /\ \E n \in 0 .. MaxFeatures :
        /\ \E ids \in [1 .. n -> GroupIds] : \E ls \in LabelLists(n) :
            fc_features = [k \in 1 .. n |->
                [samples |-> <<k>>, mzrtgroup |-> ids[k],
                 similarity_group |-> ls[k]]]
        /\ correlation \in
            [{pair \in (1 .. n) \X (1 .. n) : pair[1] < pair[2]} -> CorrValues]
    /\ fc_pos = 1
    /\ group_number = 0
    /\ mzrtgroup = <<>>
    /\ new_features = <<>>
    /\ last_collapse = <<>>

\* lines 497-499: the Feature has the id of the pending run
AppendToRun ==
    /\ fc_pc = "loop"
    /\ fc_pos <= Len(fc_features)
    /\ SameGroup(fc_features[fc_pos], group_number)
    /\ mzrtgroup' = Append(mzrtgroup, fc_features[fc_pos])
    /\ fc_pos' = fc_pos + 1
    /\ UNCHANGED <<fc_pc, fc_features, correlation, group_number, new_features,
                   last_collapse>>
    /\ UNCHANGED fcOthers

\* lines 500-504: the Feature has another id, the pending run is collapsed
FlushRun ==
    /\ fc_pc = "loop"
    /\ fc_pos <= Len(fc_features)
    /\ ~SameGroup(fc_features[fc_pos], group_number)
    /\ \E order \in UniqueLabelOrders(mzrtgroup) :
        LET call == CollapseCall(correlation, mzrtgroup, group_number, order)
        IN /\ new_features' = new_features \o call.result
           /\ last_collapse' = <<call>>
    /\ mzrtgroup' = <<fc_features[fc_pos]>>
    /\ group_number' = fc_features[fc_pos].mzrtgroup
    /\ fc_pos' = fc_pos + 1
    /\ UNCHANGED <<fc_pc, fc_features, correlation>>
    /\ UNCHANGED fcOthers

\* lines 505-506: the last run is collapsed and new_features is returned
FinalFlush ==
    /\ fc_pc = "loop"
    /\ fc_pos > Len(fc_features)
    /\ \E order \in UniqueLabelOrders(mzrtgroup) :
        LET call == CollapseCall(correlation, mzrtgroup, group_number, order)
        IN /\ new_features' = new_features \o call.result
           /\ last_collapse' = <<call>>
    /\ fc_pc' = "done"
    /\ UNCHANGED <<fc_features, correlation, fc_pos, group_number, mzrtgroup>>
    /\ UNCHANGED fcOthers

FcNext == AppendToRun \/ FlushRun \/ FinalFlush

----------------------------------------------------------------------------
(* Claims about border_prediction                                          *)

C1_Mask == <<FALSE, TRUE, TRUE, TRUE, FALSE, TRUE, TRUE, FALSE>>

\* the span [b, e) of a run of the mask, mapped to scans of the ROI
MappedSpan(b, e, L, pts) ==
    << Max2(FloorDiv((b + 1) * L, pts) - 1, 0), (FloorDiv(e * L, pts) - 1) + 1 >>

\* C1: segmentation of the mask [0,1,1,1,0,1,1,0] with peak_minimum_points
\* below both run widths returns exactly two borders, the mapped spans of the
\* runs [1,4) and [5,7).  Stated for the case the claim singles out: the
\* splitter probability at the gap (index 4) exceeds split_threshold.
C1_TwoBorders ==
    ( /\ seg_pc = "done"
      /\ points = 8
      /\ domain = C1_Mask
      /\ splitter[5]
      /\ WideEnough(2, Len(roi_i), points, peak_minimum_points) )
    => borders_roi = << MappedSpan(1, 4, Len(roi_i), points),
                        MappedSpan(5, 7, Len(roi_i), points) >>

\* no position strictly between peaks k and k + 1 (0-based) of the resampled
\* signal has a splitter probability above split_threshold
NoSplitterStrictlyBetween(k) ==
    \A p \in borders_signal[k + 1][2] .. borders_signal[k + 2][1] : ~splitter[p]

\* the summed intensity of the ROI over a border [begin', end') of its own
OwnIntensity(border) == SumSlice(roi_i, border[1], border[2])

\* C2: in the merge pass, of two adjacent candidates with no splitter above
\* split_threshold strictly between them exactly one survives, the one whose
\* summed intensity over its own border in scans of the ROI is the larger.
C2_SurvivorHasLargerOwnIntensity ==
    [][ ( /\ seg_pc = "merge"
          /\ seg_n < number_of_peaks - 1
          /\ NoSplitterStrictlyBetween(seg_n) )
        => LET first == borders_roi[seg_n + 1]
               second == borders_roi[seg_n + 2]
           IN /\ Len(borders_roi') = Len(borders_roi) - 1
              /\ OwnIntensity(first) > OwnIntensity(second)
                    => borders_roi' = Pop(borders_roi, seg_n + 1)
              /\ OwnIntensity(first) < OwnIntensity(second)
                    => borders_roi' = Pop(borders_roi, seg_n)
      ]_vars

----------------------------------------------------------------------------
(* Claims about border2average_correction                                 *)

\* the sample border in row i matches no consensus border
MatchesNoConsensus(i) ==
    \A j \in 1 .. Len(averaged_borders) :
        ~border_intersection(b2a_borders[i], averaged_borders[j])

\* the consensus border in column j is matched by no sample border
MatchedByNoSample(j) ==
    \A i \in 1 .. Len(b2a_borders) :
        ~border_intersection(b2a_borders[i], averaged_borders[j])

\* C3: a sample border that matches no consensus border is absent from the
\* result, and a consensus border matched by no sample border is in the result
\* verbatim, for lists of any lengths (equal lengths included).
C3_ExtraDroppedMissedInserted ==
    b2a_pc = "done" =>
        /\ \A i \in 1 .. Len(b2a_borders) :
              MatchesNoConsensus(i) => b2a_borders[i] \notin Range(corrected_borders)
        /\ \A j \in 1 .. Len(averaged_borders) :
              MatchedByNoSample(j) => averaged_borders[j] \in Range(corrected_borders)

\* what C10 says a row emits that matches the consensus borders in columns cols
ClaimedRowBorders(border, averaged, cols) ==
    [k \in 1 .. Len(cols) |->
        LET avg == averaged[cols[k]]
        IN IF k = 1 THEN <<Min2(border[1], avg[1]), avg[2]>>
           ELSE IF k < Len(cols) THEN avg
           ELSE <<avg[1], Max2(border[2], avg[2])>>]

RECURSIVE ClaimedRowPass(_)
ClaimedRowPass(i) ==
    IF i > Len(b2a_borders) THEN <<>>
    ELSE LET cols == Ascending(MatchedCols(mapping_matrix, i, Len(averaged_borders)))
         IN (IF Len(cols) > 1
             THEN ClaimedRowBorders(b2a_borders[i], averaged_borders, cols)
             ELSE <<>>)
            \o ClaimedRowPass(i + 1)

\* C10: a row that matches k > 1 consensus borders A_1 < ... < A_k emits exactly
\* k borders, [min(b, A_1.begin), A_1.end), the interior A_j unchanged and
\* [A_k.begin, max(e, A_k.end)), each with begin < end.
C10_MissingSeparationBorders ==
    b2a_pc = "columns" =>
        /\ corrected_borders = ClaimedRowPass(1)
        /\ \A k \in 1 .. Len(corrected_borders) :
              corrected_borders[k][1] < corrected_borders[k][2]

\* C11: for sample and consensus border lists of different lengths, after
\* the resolution of lines 139-147 no row that the row pass has marked (row
\* sum above 1 or row sum 0) is matched by a consensus column with more than
\* one match, so the assertion of line 179 never fails.
C11_AssertionNeverFails ==
    Len(b2a_borders) # Len(averaged_borders) => b2a_pc # "failed"

----------------------------------------------------------------------------
(* Claims about border_correction                                          *)

SortedByBegin(bl) == \A j \in 1 .. (Len(bl) - 1) : bl[j][1] <= bl[j + 1][1]

\* two half-open intervals share a scan
Overlap(x, y) == Max2(x[1], y[1]) < Min2(x[2], y[2])

NonOverlapping(bl) ==
    \A j \in 1 .. Len(bl) : \A k \in 1 .. Len(bl) : j # k => ~Overlap(bl[j], bl[k])

\* C4: after border_correction returns, the border list of every sample is
\* sorted by begin and its borders are pairwise non-overlapping.
C4_SortedNonOverlapping ==
    corr_pc = "done" =>
        \A k \in SampleIds :
            SortedByBegin(sample_borders[k]) /\ NonOverlapping(sample_borders[k])

\* the shifted borders of sample k as they were when the call began
ShiftedBefore(k) == ShiftedBorders(borders_before[k], rois[k][1], shifts[k])

\* the consensus borders of a label, computed from the borders as they were
\* when the call began
ConsensusBefore(label) ==
    GroupConsensus([k \in SampleIds |-> ShiftedBefore(k)], rois, grouping, label)

\* every member of the label had, when the call began, shifted borders
\* identical to the consensus borders of the label
AgreesWithConsensus(label) ==
    \A k \in Members(grouping, label) : ShiftedBefore(k) = ConsensusBefore(label)

\* C5: if the shifted borders of every member of a similarity group are
\* identical to the consensus borders of the group, border_correction leaves
\* the borders of these samples as they were before the call.
C5_ConsensusIdempotence ==
    corr_pc = "done" =>
        \A label \in {grouping[k] : k \in SampleIds} :
            AgreesWithConsensus(label) =>
                \A k \in Members(grouping, label) : sample_borders[k] = borders_before[k]

\* C5 witness: the call returned for a group of two samples, one of them
\* shifted, whose borders (not empty) were identical to the consensus
C5_Witness ==
    /\ corr_pc = "done"
    /\ grouping = <<0, 0>>
    /\ shifts # <<0, 0>>
    /\ AgreesWithConsensus(0)
    /\ borders_before[1] # <<>>

\* what the call makes of the borders of sample k, computed from the borders
\* that the samples of the label of k had when the call began, and from nothing else
OwnLabelResult(k) ==
    LET own == Members(grouping, grouping[k])
        sb == [j \in SampleIds |-> IF j \in own THEN ShiftedBefore(j) ELSE <<>>]
        averaged == GroupConsensus(sb, rois, grouping, grouping[k])
    IN UnshiftedBorders(border2average_correction(sb[k], averaged).borders,
                        rois[k][1], shifts[k], RoiLen(rois[k]))

\* C9: the pass of one label does not change the borders of the samples of
\* other labels.  With every initial border within its ROI, the final borders
\* of a sample are a function of the initial borders of the samples of its own
\* label; while labels remain, the samples of the labels not corrected yet hold
\* the borders shifted at the start of the call, and the mapping still holds
\* their initial borders.
C9_NoCrossLabelInterference ==
    /\ corr_pc = "done" =>
          \A k \in SampleIds : sample_borders[k] = OwnLabelResult(k)
    /\ corr_pc = "labels" =>
          \A k \in SampleIds :
              (\E n \in 1 .. Len(labels) : labels[n] = grouping[k]) =>
                  /\ scan_borders[k] = ShiftedBefore(k)
                  /\ sample_borders[k] = borders_before[k]

\* C9 witness: the call returned for two samples of different labels, and the
\* pass of its own label changed the borders of each
C9_Witness ==
    /\ corr_pc = "done"
    /\ grouping[1] # grouping[2]
    /\ sample_borders[1] # borders_before[1]
    /\ sample_borders[2] # borders_before[2]

----------------------------------------------------------------------------
(* Claims about build_features                                             *)

\* two samples of one label have border lists of different lengths
PeakCountsDisagree ==
    \E i \in BuildSampleIds : \E j \in BuildSampleIds :
        bf_grouping[i] = bf_grouping[j] /\ Len(bf_borders[i]) # Len(bf_borders[j])

\* C6: whenever two samples of one similarity group label have border lists of
\* different lengths, build_features fails with an assertion error and returns
\* no list of Features.
C6_DisagreeingPeakCountsFail ==
    PeakCountsDisagree => build_pc # "done"

\* the sum of mzmean over the samples of a list
RECURSIVE MzSum(_)
MzSum(members) ==
    IF members = <<>> THEN 0 ELSE bf_mzmean[Head(members)] + MzSum(Tail(members))

\* the fraction mz is the arithmetic mean of mzmean over the samples
IsMeanOfMembers(mz, members) ==
    mz[1] * Len(members) = MzSum(members) * mz[2]

\* C12: every Feature returned by build_features has mz equal to the
\* arithmetic mean of mzmean over the ROIs of its samples, for every grouping
\* of the samples of the component into labels.
C12_MzIsMeanOfMembers ==
    build_pc = "done" =>
        \A n \in DOMAIN features :
            IsMeanOfMembers(features[n].mz, features[n].samples)

----------------------------------------------------------------------------
(* Claims about collapse_mzrtgroup and feature_collapsing                  *)

\* the entries of all the Features of a list
RECURSIVE AllSamples(_)
AllSamples(fs) ==
    IF fs = <<>> THEN <<>> ELSE Head(fs).samples \o AllSamples(Tail(fs))

\* every Feature of input is held by exactly one Feature of output, once
MergedExactlyOnce(input, output) ==
    /\ \A idx \in DOMAIN input :
        Cardinality({n \in DOMAIN AllSamples(output) :
            AllSamples(output)[n] = input[idx].samples[1]}) = 1
    /\ Len(AllSamples(output)) = Len(input)

\* no Feature of output holds two argument Features of one similarity_group
OneFeaturePerLabel(output) ==
    \A n \in DOMAIN output :
        \A a \in DOMAIN output[n].samples : \A b \in DOMAIN output[n].samples :
            a # b => fc_features[output[n].samples[a]].similarity_group
                        # fc_features[output[n].samples[b]].similarity_group

\* the Feature idx correlates above the threshold with no Feature of another
\* similarity_group
HasNoAcceptedMatch(input, idx) ==
    \A jdx \in DOMAIN input :
        input[jdx].similarity_group # input[idx].similarity_group
            => MaxCorrelation(correlation, input[idx], input[jdx]) <= CorrThreshold

UnmatchedAreSingletons(input, output) ==
    \A idx \in DOMAIN input :
        HasNoAcceptedMatch(input, idx)
            => \E n \in DOMAIN output : output[n].samples = input[idx].samples

\* C7: for every list of Features given to collapse_mzrtgroup and all
\* correlations, each input Feature is merged into exactly one output Feature,
\* each output Feature holds at most one input Feature of a similarity_group,
\* and an input Feature without an accepted match (strictly above 0.8) is an
\* output Feature of its own.
C7_CollapsePartitionsTheInput ==
    \A c \in DOMAIN last_collapse :
        /\ MergedExactlyOnce(last_collapse[c].mzrtgroup, last_collapse[c].result)
        /\ OneFeaturePerLabel(last_collapse[c].result)
        /\ UnmatchedAreSingletons(last_collapse[c].mzrtgroup, last_collapse[c].result)

\* a call with two Features of one label and one of another, of which one was
\* merged with an accepted match and one was left alone
C7_Witness ==
    \E c \in DOMAIN last_collapse :
        /\ Len(last_collapse[c].mzrtgroup) = 3
        /\ Len(last_collapse[c].order) = 2
        /\ Len(last_collapse[c].result) = 2
        /\ \E n \in DOMAIN last_collapse[c].result :
            Len(last_collapse[c].result[n].samples) = 2
        /\ \E idx \in DOMAIN last_collapse[c].mzrtgroup :
            /\ HasNoAcceptedMatch(last_collapse[c].mzrtgroup, idx)
            /\ \E n \in DOMAIN last_collapse[c].result :
                last_collapse[c].result[n].samples
                    = last_collapse[c].mzrtgroup[idx].samples

\* C8: feature_collapsing collapses the pending run at every change of
\* mzrtgroup id and at the end of the list: in the returned list no Feature
\* combines argument Features of different ids, the mzrtgroup of every Feature
\* is the id of the argument Features merged into it, and every argument
\* Feature is held by exactly one returned Feature; the empty list and a list
\* whose first id is not 0 included.
C8_RunsCollapsedSeparately ==
    fc_pc = "done" =>
        /\ \A n \in DOMAIN new_features :
            \A a \in Range(new_features[n].samples) :
                \A b \in Range(new_features[n].samples) :
                    fc_features[a].mzrtgroup = fc_features[b].mzrtgroup
        /\ \A n \in DOMAIN new_features :
            \A a \in Range(new_features[n].samples) :
                new_features[n].mzrtgroup = fc_features[a].mzrtgroup
        /\ MergedExactlyOnce(fc_features, new_features)

\* a returned list for an argument whose first id is not 0 and whose id
\* changes, with two argument Features merged
C8_Witness ==
    /\ fc_pc = "done"
    /\ Len(fc_features) = 3
    /\ fc_features[1].mzrtgroup # 0
    /\ fc_features[3].mzrtgroup # fc_features[2].mzrtgroup
    /\ \E n \in DOMAIN new_features : Len(new_features[n].samples) = 2

----------------------------------------------------------------------------
\* a call of border_prediction
InitSeg == SegInputs /\ B2AIdle /\ CorrIdle /\ BuildIdle /\ FcIdle

\* a call of border2average_correction
InitB2A == B2AInputs /\ SegIdle /\ CorrIdle /\ BuildIdle /\ FcIdle

\* a call of border_correction
InitCorr == CorrInputs /\ SegIdle /\ B2AIdle /\ BuildIdle /\ FcIdle

\* a call of build_features
InitBuild == BuildInputs /\ SegIdle /\ B2AIdle /\ CorrIdle /\ FcIdle

\* a call of feature_collapsing
InitFc == FcInputs /\ SegIdle /\ B2AIdle /\ CorrIdle /\ BuildIdle

Init == InitSeg \/ InitB2A \/ InitCorr \/ InitBuild \/ InitFc

Next == SegNext \/ B2ANext \/ CorrNext \/ BuildNext \/ FcNext

Spec == Init /\ [][Next]_vars

SpecSeg == InitSeg /\ [][SegNext]_vars

SpecB2A == InitB2A /\ [][B2ANext]_vars

SpecCorr == InitCorr /\ [][CorrNext]_vars

SpecBuild == InitBuild /\ [][BuildNext]_vars

SpecFc == InitFc /\ [][FcNext]_vars

=============================================================================
